---- MODULE Spec2Model ----
(***************************************************************************)
(* Model of src/main.py: the cadastral overlap service.                    *)
(*                                                                         *)
(*   normalize_coords            raw vertex list -> closed ring            *)
(*   parse_gml_polygon_to_shapely / read_wfs_members                       *)
(*                               WFS payload -> parcel records             *)
(*   overlap                     the POST /overlap request handler         *)
(*                                                                         *)
(* Coordinates are finite numbers, modelled as integers.  Optional values  *)
(* (Python None) are sequences of length <= 1: <<>> is None, <<v>> is v.   *)
(* Areas are integers counting sixteenths of a square unit, so every area  *)
(* of the model is exactly representable as a Python float and round()     *)
(* to one decimal can be computed exactly (ties go to the even digit).     *)
(***************************************************************************)
EXTENDS Integers, Sequences, FiniteSets, TLC

VARIABLES
    pc,             \* position of the computation being modelled
    req,            \* the request: [coords, include_touches]
    pts,            \* what normalize_coords(req.coords) produced
    again,          \* what normalize_coords produced on its own output
    user_poly,      \* class of make_valid(Polygon(pts))
    bbox,           \* <<minx, miny, maxx, maxy>> or <<>>
    fetches,        \* number of WFS requests issued
    xml,            \* the payload: sequence of wfs:member elements
    parcels,        \* records read from the payload
    idx,            \* loop index (members read / parcels processed)
    results,        \* the parcel result list
    ku_set,         \* keys of the ku_set dict, in insertion order
    overlap_total,  \* running total of intersection areas
    response        \* outcome of the request

vars == <<pc, req, pts, again, user_poly, bbox, fetches, xml, parcels, idx,
          results, ku_set, overlap_total, response>>

----------------------------------------------------------------------------
(* Bounds.                                                                 *)

MaxLen == 5         \* longest raw coordinate list given to normalize_coords
MaxMembers == 3     \* longest payload given to read_wfs_members alone
MaxParcels == 2     \* longest payload returned to an overlap request
MaxArea == 3        \* largest geometry area, in sixteenths

----------------------------------------------------------------------------
(* Small helpers.                                                          *)

Abs(v) == IF v < 0 THEN -v ELSE v

Max(a, b) == IF a >= b THEN a ELSE b

SeqsUpTo(S, n) == UNION {[1..k -> S] : k \in 0..n}

None == <<>>

Some(v) == <<v>>

----------------------------------------------------------------------------
(* normalize_coords                                                        *)

\* line 21: (-abs(x), -abs(y)) for every point
ForceNegative(ps) == [k \in DOMAIN ps |-> <<-Abs(ps[k][1]), -Abs(ps[k][2])>>]

GoodInverted(ps) ==
    Cardinality({k \in DOMAIN ps : Abs(ps[k][1]) > Abs(ps[k][2])})

\* line 23: number of points with abs(y) > abs(x)
Good(ps) == Cardinality({k \in DOMAIN ps : Abs(ps[k][2]) > Abs(ps[k][1])})

NeedsSwapLe(ps) == Good(ps) <= Max(1, Len(ps) \div 2)

\* line 24: the condition of the axis swap
NeedsSwap(ps) == Good(ps) < Max(1, Len(ps) \div 2)

\* line 25
SwapAxes(ps) == [k \in DOMAIN ps |-> <<ps[k][2], ps[k][1]>>]

\* lines 27-28
CloseRing(ps) == IF ps[1] /= ps[Len(ps)] THEN Append(ps, ps[1]) ELSE ps

KeepAll(ps) == ps

RECURSIVE DropFrom(_, _)
\* lines 31-33: the loop, with `cleaned` built so far and the rest of pts
DropFrom(cleaned, rest) ==
    IF rest = <<>> THEN cleaned
    ELSE IF Head(rest) /= cleaned[Len(cleaned)]
         THEN DropFrom(Append(cleaned, Head(rest)), Tail(rest))
         ELSE DropFrom(cleaned, Tail(rest))

\* lines 30-33: drop consecutive duplicates
DropConsecutive(ps) == DropFrom(<<ps[1]>>, Tail(ps))

\* What a call leaves behind: err is "none" when it returns `ring`;
\* `swapped` and `cleaned` are the locals at the end of the call.
NormResult(err, swapped, cleaned) ==
    [err |-> err, swapped |-> swapped, cleaned |-> cleaned,
     ring |-> IF err = "none" THEN cleaned ELSE <<>>]

\* lines 18-36.  pts[0] on an empty list raises IndexError (line 27).
normalize_coords(coords) ==
    IF coords = <<>> THEN NormResult("IndexError", TRUE, <<>>)
    ELSE LET neg     == ForceNegative(coords)
             swapped == NeedsSwap(neg)
             ax      == IF swapped THEN SwapAxes(neg) ELSE neg
             cleaned == DropConsecutive(CloseRing(ax))
         IN  IF Len(cleaned) < 4
             THEN NormResult("ValueError", swapped, cleaned)
             ELSE NormResult("none", swapped, cleaned)

NoResult == NormResult("pending", FALSE, <<>>)

----------------------------------------------------------------------------
(* Geometries and the WFS payload.                                         *)
(*                                                                         *)
(* shapely is not part of the repository.  A parcel geometry is what the   *)
(* handler reads of it: is_empty, area, and, against the request's user    *)
(* polygon, the area of the intersection and whether the two intersect.    *)

Shape(empty, area, inter, meets) ==
    [empty |-> empty, area |-> area, inter |-> inter, meets |-> meets]

EmptyShape == Shape(TRUE, 0, 0, FALSE)

\* Every geometry shapely can hand back within the bound: the intersection
\* lies inside the parcel, and a positive intersection area means the two
\* geometries intersect.
Shapes ==
    {EmptyShape} \cup
    {Shape(FALSE, a, i, m) : a \in 0..MaxArea, i \in 0..MaxArea, m \in BOOLEAN}

ValidShape(s) ==
    /\ s.inter <= s.area
    /\ s.inter > 0 => s.meets

ShapeSet == {s \in Shapes : ValidShape(s)}

\* A gml:Polygon element: its exterior posList (absent, with a token float()
\* rejects, or numbers), its gml:interior elements in document order, and
\* what shapely makes of the coordinates.
GmlPolygon(ext, ints, geos, shape) ==
    [ext |-> ext, ints |-> ints, geos |-> geos, shape |-> shape]

\* The text of cp:areaValue ("" when the element is absent).
AreaTxt(kind, val) == [kind |-> kind, val |-> val]

NoAreaTxt == AreaTxt("empty", 0)

Zoning(title, href) == [title |-> title, href |-> href]

\* A wfs:member.  ncr stands for cp:nationalCadastralReference and cp:label,
\* which the code copies side by side.
Member(parcel, ncr, areaTxt, zoning, geom) ==
    [parcel |-> parcel, ncr |-> ncr, areaTxt |-> areaTxt, zoning |-> zoning,
     geom |-> geom]

\* lines 60-62: no exterior posList
NoExterior(g) == g.ext = "missing"

\* lines 63 and 71: float() raises ValueError on a token
BadFloat(g) ==
    \/ g.ext = "badfloat"
    \/ \E k \in DOMAIN g.ints : g.ints[k] = "badfloat"

\* lines 67-74: the interior rings kept (a posList of at least 4 points)
Holes(g) == Cardinality({k \in DOMAIN g.ints : g.ints[k] = "ring"})

\* lines 58-78: the exception raised, or "none" and the number of holes
parse_gml_polygon_to_shapely(g) ==
    IF NoExterior(g) THEN [err |-> "ValueError", holes |-> 0]
    ELSE IF BadFloat(g) THEN [err |-> "ValueError", holes |-> 0]
    ELSE IF g.geos = "ctor_raises" THEN [err |-> "ShapelyError", holes |-> 0]
    ELSE [err |-> "none", holes |-> Holes(g)]

GeometryOkStrict(m) ==
    /\ parse_gml_polygon_to_shapely(m.geom[1]).err = "none"
    /\ m.geom[1].geos /= "repair_raises"
    /\ m.areaTxt.kind /= "bad"

\* lines 106-109: the try block ends without an exception
GeometryOk(m) ==
    /\ parse_gml_polygon_to_shapely(m.geom[1]).err = "none"
    /\ m.geom[1].geos /= "repair_raises"

\* lines 111-114
AreaValue(txt) == IF txt.kind = "num" THEN Some(txt.val) ELSE None

\* lines 98-100
KuOf(m) ==
    IF m.zoning = None THEN [name |-> None, href |-> None]
    ELSE [name |-> m.zoning[1].title, href |-> m.zoning[1].href]

\* lines 116-124
ParcelRecord(m) ==
    [ncr |-> m.ncr, areaValue |-> AreaValue(m.areaTxt), ku |-> KuOf(m),
     holes |-> parse_gml_polygon_to_shapely(m.geom[1]).holes,
     geometry |-> m.geom[1].shape]

\* lines 91-92, 103-104, 108-109: the three `continue`s
Skipped(m) ==
    \/ ~m.parcel
    \/ m.geom = None
    \/ ~GeometryOk(m)

RECURSIVE ReadFrom(_, _)
\* lines 89-124: the loop, with `out` built so far
ReadFrom(out, rest) ==
    IF rest = <<>> THEN out
    ELSE IF Skipped(Head(rest)) THEN ReadFrom(out, Tail(rest))
         ELSE ReadFrom(Append(out, ParcelRecord(Head(rest))), Tail(rest))

\* lines 80-125
read_wfs_members(members) == ReadFrom(<<>>, members)

----------------------------------------------------------------------------
(* The user polygon: make_valid(Polygon(pts)), line 138.                   *)
(*                                                                         *)
(* shapely decides the class of the repaired geometry.  A ring that is     *)
(* simple (no two edges meet except neighbours at their shared vertex) is  *)
(* a valid polygon, and make_valid returns a valid geometry as it is.  A   *)
(* ring whose points lie on one line encloses nothing: what is left of it  *)
(* is lineal, or empty.  For any other ring the repair may return any      *)
(* class that has an area.                                                 *)

Cross(o, a, b) == (a[1] - o[1]) * (b[2] - o[2]) - (a[2] - o[2]) * (b[1] - o[1])

Sign(v) == IF v > 0 THEN 1 ELSE IF v < 0 THEN -1 ELSE 0

Between(lo, hi, v) == (lo <= v /\ v <= hi) \/ (hi <= v /\ v <= lo)

\* p lies on the closed segment a-b
OnSegment(a, b, p) ==
    /\ Cross(a, b, p) = 0
    /\ Between(a[1], b[1], p[1])
    /\ Between(a[2], b[2], p[2])

\* the closed segments a-b and c-d have a point in common
SegmentsMeet(a, b, c, d) ==
    \/ /\ Sign(Cross(a, b, c)) /= Sign(Cross(a, b, d))
       /\ Sign(Cross(c, d, a)) /= Sign(Cross(c, d, b))
    \/ OnSegment(a, b, c) \/ OnSegment(a, b, d)
    \/ OnSegment(c, d, a) \/ OnSegment(c, d, b)

\* consecutive edges a-b, b-c share more than the vertex b
FoldsBack(a, b, c) == OnSegment(a, b, c) \/ OnSegment(b, c, a)

SimpleRing(ring) ==
    LET n == Len(ring) - 1      \* edges k: ring[k] -> ring[k+1]
    IN  \A i \in 1..n : \A j \in 1..n :
          i < j =>
            IF j = i + 1
            THEN ~FoldsBack(ring[i], ring[i + 1], ring[j + 1])
            ELSE IF i = 1 /\ j = n
            THEN ~FoldsBack(ring[j], ring[j + 1], ring[i + 1])
            ELSE ~SegmentsMeet(ring[i], ring[i + 1], ring[j], ring[j + 1])

UserPoly(cls, empty) == [cls |-> cls, is_empty |-> empty]

NoPoly == UserPoly("pending", FALSE)

\* every point of the ring lies on the line through its first two points
AllCollinear(ring) == \A k \in DOMAIN ring : Cross(ring[1], ring[2], ring[k]) = 0

\* line 138: what make_valid(Polygon(pts)) may be
RepairedUserPolys(ring) ==
    IF SimpleRing(ring) THEN {UserPoly("Polygon", FALSE)}
    ELSE IF AllCollinear(ring)
    THEN {UserPoly("LineString", FALSE), UserPoly("MultiLineString", FALSE),
          UserPoly("Polygon", TRUE)}
    ELSE {UserPoly("Polygon", FALSE), UserPoly("MultiPolygon", FALSE),
          UserPoly("GeometryCollection", FALSE)}

\* line 142: only a Polygon has an `exterior`
HasExterior(poly) == poly.cls = "Polygon"

SetMin(S) == CHOOSE v \in S : \A w \in S : v <= w

SetMax(S) == CHOOSE v \in S : \A w \in S : v >= w

\* lines 38-41
polygon_bbox(ps) ==
    LET xs == {ps[k][1] : k \in DOMAIN ps}
        ys == {ps[k][2] : k \in DOMAIN ps}
    IN  <<SetMin(xs), SetMin(ys), SetMax(xs), SetMax(ys)>>

----------------------------------------------------------------------------
(* The overlap loop, lines 151-182.                                        *)

\* Python's round() of the exact quotient n / d (d > 0): to the nearest
\* integer, a tie to the even one.
RoundDiv(n, d) ==
    LET q == n \div d
        r == n % d
    IN  IF 2 * r < d THEN q
        ELSE IF 2 * r > d THEN q + 1
        ELSE IF q % 2 = 0 THEN q ELSE q + 1

\* round(a, 1) of an area of a sixteenths, in tenths
Round1(a) == RoundDiv(10 * a, 16)

\* line 157
InterArea(g) == IF g.meets THEN g.inter ELSE 0

IncludedTouching(p, include_touches) ==
    InterArea(p.geometry) > 0 \/ p.geometry.meets

\* line 159
Included(p, include_touches) ==
    \/ InterArea(p.geometry) > 0
    \/ (include_touches /\ p.geometry.meets)

\* line 160
ParcelArea(p) ==
    IF p.areaValue /= None THEN p.areaValue[1] ELSE p.geometry.area

\* lines 161 and 174: round(inter_area / parcel_area * 100.0, 2) in
\* hundredths of a percent, or None
Pct(inter_area, parcel_area) ==
    IF parcel_area > 0 THEN Some(RoundDiv(inter_area * 10000, parcel_area))
    ELSE None

\* a str that is neither None nor ""
Truthy(s) == s /= None /\ s /= Some("")

KuAddAlways(keys, p) ==
    IF Truthy(p.ku.name) /\ Truthy(p.ku.href)
    THEN Append(keys, <<p.ku.name[1], p.ku.href[1]>>)
    ELSE keys

\* lines 163-166: ku_set[(ku_name, ku_href)] = True; a dict keeps a key at
\* the place of its first insertion
KuAdd(keys, p) ==
    IF Truthy(p.ku.name) /\ Truthy(p.ku.href)
    THEN LET key == <<p.ku.name[1], p.ku.href[1]>>
         IN  IF \E k \in DOMAIN keys : keys[k] = key THEN keys
             ELSE Append(keys, key)
    ELSE keys

\* lines 168-178
ResultOf(p) ==
    [ncr |-> p.ncr,
     areaParcel |-> Round1(ParcelArea(p)),
     overlap |-> Round1(InterArea(p.geometry)),
     pct |-> Pct(InterArea(p.geometry), ParcelArea(p)),
     kuName |-> p.ku.name,
     kuHref |-> p.ku.href]

InsertAt(s, k, r) == SubSeq(s, 1, k) \o <<r>> \o SubSeq(s, k + 1, Len(s))

InsertBeforeEqual(sorted, r) ==
    InsertAt(sorted,
             Cardinality({k \in DOMAIN sorted : sorted[k].overlap > r.overlap}),
             r)

\* list.sort is stable, also with reverse=True: r goes behind every entry
\* whose key is not smaller
InsertDesc(sorted, r) ==
    InsertAt(sorted,
             Cardinality({k \in DOMAIN sorted : sorted[k].overlap >= r.overlap}),
             r)

RECURSIVE SortFrom(_, _)
SortFrom(sorted, rest) ==
    IF rest = <<>> THEN sorted
    ELSE SortFrom(InsertDesc(sorted, Head(rest)), Tail(rest))

\* line 181: results.sort(key=lambda x: x["overlap"], reverse=True)
SortByOverlap(rs) == SortFrom(<<>>, rs)

\* line 182
KuList(keys) == [k \in DOMAIN keys |-> [name |-> keys[k][1], href |-> keys[k][2]]]

Response(status, error, ku, ps, total, box) ==
    [status |-> status, error |-> error, ku |-> ku, parcels |-> ps,
     overlapTotal |-> total, bbox |-> box]

NoResponse == Response(0, "", <<>>, <<>>, 0, <<>>)

RejectedValueError(detail) ==
    IF detail = "IndexError" THEN Response(500, detail, <<>>, <<>>, 0, <<>>)
    ELSE Response(400, detail, <<>>, <<>>, 0, <<>>)

\* lines 135-136 and 140: `except Exception` turns whatever normalize_coords
\* raised, and an empty polygon, into HTTPException(status_code=400)
Rejected(detail) == Response(400, detail, <<>>, <<>>, 0, <<>>)

\* an exception the handler does not catch: the framework answers 500
Failed(exc) == Response(500, exc, <<>>, <<>>, 0, <<>>)

----------------------------------------------------------------------------
(* Inputs.                                                                 *)

\* Raw points given to normalize_coords alone: both signs, both axis
\* orders, |x| = |y|, and zeros.
RawPoints ==
    {<<10, 5>>, <<10, -5>>, <<-10, -5>>, <<-10, 5>>, <<5, 10>>, <<0, 5>>,
     <<5, 5>>, <<0, 0>>, <<-5, 0>>}

CoordLists == SeqsUpTo(RawPoints, MaxLen)

\* The example of the specification's section 8.
C3Input == <<<<10, 5>>, <<10, -5>>, <<-10, -5>>, <<-10, 5>>>>

Triangle == <<<<0, 10>>, <<5, 20>>, <<10, 10>>>>

Square == <<<<0, 0>>, <<0, 10>>, <<5, 10>>, <<5, 0>>>>

Bowtie == <<<<0, 0>>, <<5, 10>>, <<5, 0>>, <<0, 10>>>>

Collinear == <<<<0, 0>>, <<0, 5>>, <<0, 10>>>>

\* Coordinate lists of overlap requests: an empty list, lists that
\* normalize to fewer than 4 points, a triangle and a square, a ring that
\* crosses itself and a ring without area.
ReqCoords ==
    {<<>>, <<<<1, 2>>, <<3, 4>>>>, C3Input, Triangle, Square, Bowtie, Collinear}

DefaultZoning == Some(Zoning(Some("A"), Some("h1")))

OtherZonings ==
    {None,
     Some(Zoning(Some("B"), Some("h1"))),
     Some(Zoning(Some("A"), Some("h2"))),
     Some(Zoning(Some(""), Some("h1"))),
     Some(Zoning(Some("A"), None))}

GoodGml(shape) == GmlPolygon("ok", <<>>, "ok", shape)

\* a parcel lying wholly inside the user polygon
FullShape == Shape(FALSE, MaxArea, MaxArea, TRUE)

UnitShape == Shape(FALSE, 1, 1, TRUE)

AreaTxts ==
    {AreaTxt("bad", 0)} \cup {AreaTxt("num", v) : v \in {-1, 0, 1, MaxArea + 1}}

\* members no record is read from
BadMembers ==
    {Member(FALSE, 0, NoAreaTxt, None, None),
     Member(TRUE, 0, NoAreaTxt, DefaultZoning, None),
     Member(TRUE, 0, NoAreaTxt, DefaultZoning,
            Some(GmlPolygon("missing", <<>>, "ok", UnitShape))),
     Member(TRUE, 0, NoAreaTxt, DefaultZoning,
            Some(GmlPolygon("badfloat", <<>>, "ok", UnitShape))),
     Member(TRUE, 0, NoAreaTxt, DefaultZoning,
            Some(GmlPolygon("ok", <<"ring", "badfloat">>, "ok", UnitShape))),
     Member(TRUE, 0, NoAreaTxt, DefaultZoning,
            Some(GmlPolygon("ok", <<>>, "ctor_raises", UnitShape))),
     Member(TRUE, 0, NoAreaTxt, DefaultZoning,
            Some(GmlPolygon("ok", <<>>, "repair_raises", UnitShape)))}

\* members of a payload handed to read_wfs_members alone
ReadMembers ==
    BadMembers \cup
    {Member(TRUE, 0, NoAreaTxt, DefaultZoning,
            Some(GmlPolygon("ok", ints, "ok", UnitShape))) :
        ints \in {<<>>, <<"short">>, <<"nopos">>, <<"ring", "short", "ring">>}}
    \cup
    {Member(TRUE, 0, t, DefaultZoning, Some(GoodGml(UnitShape))) :
        t \in {AreaTxt("bad", 0), AreaTxt("num", 1)}}
    \cup
    {Member(TRUE, 0, NoAreaTxt, z, Some(GoodGml(EmptyShape))) :
        z \in {None, Some(Zoning(Some("A"), None))}}

\* members of a payload returned to an overlap request
OverlapMembers ==
    {Member(TRUE, 0, NoAreaTxt, DefaultZoning, Some(GoodGml(s))) : s \in ShapeSet}
    \cup
    {Member(TRUE, 0, t, DefaultZoning, Some(GoodGml(FullShape))) : t \in AreaTxts}
    \cup
    {Member(TRUE, 0, NoAreaTxt, z, Some(GoodGml(UnitShape))) : z \in OtherZonings}
    \cup
    {Member(FALSE, 0, NoAreaTxt, None, None),
     Member(TRUE, 0, NoAreaTxt, DefaultZoning, None),
     Member(TRUE, 0, NoAreaTxt, DefaultZoning,
            Some(GmlPolygon("badfloat", <<>>, "ok", UnitShape)))}

\* payloads of at most n members drawn from S; the k-th member carries the
\* reference k
Payloads(S, n) ==
    {[k \in DOMAIN b |-> [b[k] EXCEPT !.ncr = k]] : b \in SeqsUpTo(S, n)}

----------------------------------------------------------------------------
(* POST /overlap, lines 131-190.                                           *)

Init ==
    /\ pc = "start"
    /\ req \in [coords : ReqCoords, include_touches : BOOLEAN]
    /\ pts = NoResult
    /\ again = NoResult
    /\ user_poly = NoPoly
    /\ bbox = <<>>
    /\ fetches = 0
    /\ xml = <<>>
    /\ parcels = <<>>
    /\ idx = 0
    /\ results = <<>>
    /\ ku_set = <<>>
    /\ overlap_total = 0
    /\ response = NoResponse

\* lines 133-136: normalize_coords raises
NormalizeRejects ==
    /\ pc = "start"
    /\ normalize_coords(req.coords).err /= "none"
    /\ pts' = normalize_coords(req.coords)
    /\ response' = Rejected(pts'.err)
    /\ pc' = "done"
    /\ UNCHANGED <<req, again, user_poly, bbox, fetches, xml, parcels, idx,
                   results, ku_set, overlap_total>>

\* lines 133-134: normalize_coords returns
NormalizeAccepts ==
    /\ pc = "start"
    /\ normalize_coords(req.coords).err = "none"
    /\ pts' = normalize_coords(req.coords)
    /\ pc' = "repair"
    /\ UNCHANGED <<req, again, user_poly, bbox, fetches, xml, parcels, idx,
                   results, ku_set, overlap_total, response>>

\* lines 138-140
Repair ==
    /\ pc = "repair"
    /\ \E u \in RepairedUserPolys(pts.ring) :
         /\ user_poly' = u
         /\ IF u.is_empty
            THEN response' = Rejected("Polygon is empty/invalid.") /\ pc' = "done"
            ELSE response' = response /\ pc' = "bbox"
    /\ UNCHANGED <<req, pts, again, bbox, fetches, xml, parcels, idx, results,
                   ku_set, overlap_total>>

\* line 142
BoundingBox ==
    /\ pc = "bbox"
    /\ IF HasExterior(user_poly)
       THEN bbox' = polygon_bbox(pts.ring) /\ response' = response /\ pc' = "fetch"
       ELSE bbox' = bbox /\ response' = Failed("AttributeError") /\ pc' = "done"
    /\ UNCHANGED <<req, pts, again, user_poly, fetches, xml, parcels, idx,
                   results, ku_set, overlap_total>>

\* lines 144-145: the service answers with a payload, which is read
Fetch ==
    /\ pc = "fetch"
    /\ fetches' = fetches + 1
    /\ \E payload \in Payloads(OverlapMembers, MaxParcels) :
         /\ xml' = payload
         /\ parcels' = read_wfs_members(payload)
    /\ pc' = "loop"
    /\ UNCHANGED <<req, pts, again, user_poly, bbox, idx, results, ku_set,
                   overlap_total, response>>

\* lines 54-55: requests.get or raise_for_status raises
FetchFails ==
    /\ pc = "fetch"
    /\ fetches' = fetches + 1
    /\ response' = Failed("RequestException")
    /\ pc' = "done"
    /\ UNCHANGED <<req, pts, again, user_poly, bbox, xml, parcels, idx,
                   results, ku_set, overlap_total>>

\* line 81: the answer is not well-formed XML
FetchMalformed ==
    /\ pc = "fetch"
    /\ fetches' = fetches + 1
    /\ response' = Failed("ParseError")
    /\ pc' = "done"
    /\ UNCHANGED <<req, pts, again, user_poly, bbox, xml, parcels, idx,
                   results, ku_set, overlap_total>>

\* lines 151-154: an empty geometry is passed over
LoopSkipEmpty ==
    /\ pc = "loop"
    /\ idx < Len(parcels)
    /\ parcels[idx + 1].geometry.empty
    /\ idx' = idx + 1
    /\ UNCHANGED <<pc, req, pts, again, user_poly, bbox, fetches, xml, parcels,
                   results, ku_set, overlap_total, response>>

\* lines 156-159: the parcel is not included
LoopExclude ==
    /\ pc = "loop"
    /\ idx < Len(parcels)
    /\ ~parcels[idx + 1].geometry.empty
    /\ ~Included(parcels[idx + 1], req.include_touches)
    /\ idx' = idx + 1
    /\ UNCHANGED <<pc, req, pts, again, user_poly, bbox, fetches, xml, parcels,
                   results, ku_set, overlap_total, response>>

\* lines 156-179: the parcel is included
LoopInclude ==
    /\ pc = "loop"
    /\ idx < Len(parcels)
    /\ ~parcels[idx + 1].geometry.empty
    /\ Included(parcels[idx + 1], req.include_touches)
    /\ ku_set' = KuAdd(ku_set, parcels[idx + 1])
    /\ results' = Append(results, ResultOf(parcels[idx + 1]))
    /\ overlap_total' = overlap_total + InterArea(parcels[idx + 1].geometry)
    /\ idx' = idx + 1
    /\ UNCHANGED <<pc, req, pts, again, user_poly, bbox, fetches, xml, parcels,
                   response>>

\* lines 181-190
Finish ==
    /\ pc = "loop"
    /\ idx = Len(parcels)
    /\ results' = SortByOverlap(results)
    /\ response' = Response(200, "", KuList(ku_set), results',
                            Round1(overlap_total), bbox)
    /\ pc' = "done"
    /\ UNCHANGED <<req, pts, again, user_poly, bbox, fetches, xml, parcels, idx,
                   ku_set, overlap_total>>

Next ==
    \/ NormalizeRejects
    \/ NormalizeAccepts
    \/ Repair
    \/ BoundingBox
    \/ Fetch
    \/ FetchFails
    \/ FetchMalformed
    \/ LoopSkipEmpty
    \/ LoopExclude
    \/ LoopInclude
    \/ Finish

Spec == Init /\ [][Next]_vars

----------------------------------------------------------------------------
(* read_wfs_members alone, one member per step.                            *)

InitRead ==
    /\ pc = "read"
    /\ req = [coords |-> <<>>, include_touches |-> FALSE]
    /\ pts = NoResult
    /\ again = NoResult
    /\ user_poly = NoPoly
    /\ bbox = <<>>
    /\ fetches = 0
    /\ xml \in Payloads(ReadMembers, MaxMembers)
    /\ parcels = <<>>
    /\ idx = 0
    /\ results = <<>>
    /\ ku_set = <<>>
    /\ overlap_total = 0
    /\ response = NoResponse

ReadUnchanged ==
    UNCHANGED <<pc, req, pts, again, user_poly, bbox, fetches, xml, results,
                ku_set, overlap_total, response>>

\* lines 90-92
ReadNoParcel ==
    /\ pc = "read"
    /\ idx < Len(xml)
    /\ ~xml[idx + 1].parcel
    /\ idx' = idx + 1
    /\ parcels' = parcels
    /\ ReadUnchanged

\* lines 102-104
ReadNoGeometry ==
    /\ pc = "read"
    /\ idx < Len(xml)
    /\ xml[idx + 1].parcel
    /\ xml[idx + 1].geom = None
    /\ idx' = idx + 1
    /\ parcels' = parcels
    /\ ReadUnchanged

\* lines 106-109
ReadBadGeometry ==
    /\ pc = "read"
    /\ idx < Len(xml)
    /\ xml[idx + 1].parcel
    /\ xml[idx + 1].geom /= None
    /\ ~GeometryOk(xml[idx + 1])
    /\ idx' = idx + 1
    /\ parcels' = parcels
    /\ ReadUnchanged

\* lines 111-124
ReadAppend ==
    /\ pc = "read"
    /\ idx < Len(xml)
    /\ xml[idx + 1].parcel
    /\ xml[idx + 1].geom /= None
    /\ GeometryOk(xml[idx + 1])
    /\ idx' = idx + 1
    /\ parcels' = Append(parcels, ParcelRecord(xml[idx + 1]))
    /\ ReadUnchanged

\* line 125
ReadReturn ==
    /\ pc = "read"
    /\ idx = Len(xml)
    /\ pc' = "read_done"
    /\ UNCHANGED <<req, pts, again, user_poly, bbox, fetches, xml, parcels, idx,
                   results, ku_set, overlap_total, response>>

NextRead ==
    \/ ReadNoParcel
    \/ ReadNoGeometry
    \/ ReadBadGeometry
    \/ ReadAppend
    \/ ReadReturn

SpecRead == InitRead /\ [][NextRead]_vars

----------------------------------------------------------------------------
(* normalize_coords alone, and applied to its own output.                  *)

InitNorm ==
    /\ pc = "norm"
    /\ req \in [coords : CoordLists, include_touches : {FALSE}]
    /\ pts = NoResult
    /\ again = NoResult
    /\ user_poly = NoPoly
    /\ bbox = <<>>
    /\ fetches = 0
    /\ xml = <<>>
    /\ parcels = <<>>
    /\ idx = 0
    /\ results = <<>>
    /\ ku_set = <<>>
    /\ overlap_total = 0
    /\ response = NoResponse

NormCall ==
    /\ pc = "norm"
    /\ pts' = normalize_coords(req.coords)
    /\ pc' = "normed"
    /\ UNCHANGED <<req, again, user_poly, bbox, fetches, xml, parcels, idx,
                   results, ku_set, overlap_total, response>>

NormAgain ==
    /\ pc = "normed"
    /\ pts.err = "none"
    /\ again' = normalize_coords(pts.ring)
    /\ pc' = "renormed"
    /\ UNCHANGED <<req, pts, user_poly, bbox, fetches, xml, parcels, idx,
                   results, ku_set, overlap_total, response>>

NextNorm ==
    \/ NormCall
    \/ NormAgain

SpecNorm == InitNorm /\ [][NextNorm]_vars

----------------------------------------------------------------------------
(* Properties.                                                             *)

Answered == pc = "done" /\ response.status = 200

\* the record read from the member with reference n
ParcelOf(n) == CHOOSE p \in {parcels[k] : k \in DOMAIN parcels} : p.ncr = n

\* the number of result entries for the parcel with reference n
Entries(rs, n) == Cardinality({k \in DOMAIN rs : rs[k].ncr = n})

\* C1: whenever normalize_coords returns, the ring is closed (first point
\* equals last point), has at least 4 points and holds no two consecutive
\* equal points.
C1_RingClosedNoRepeats ==
    (pc /= "norm" /\ pts.err = "none") =>
        LET r == pts.ring
        IN  /\ Len(r) >= 4
            /\ r[1] = r[Len(r)]
            /\ \A k \in 1..(Len(r) - 1) : r[k] /= r[k + 1]

\* C1, its case: an open input with a repeated point was closed and cleaned.
C1_Witness ==
    /\ pc = "normed"
    /\ pts.err = "none"
    /\ req.coords[1] /= req.coords[Len(req.coords)]
    /\ \E k \in 1..(Len(req.coords) - 1) : req.coords[k] = req.coords[k + 1]
    /\ Len(pts.ring) = 4

\* the ring passes the majority test of line 24 as it stands
AxisCorrect(r) ==
    LET good == Cardinality({k \in DOMAIN r : r[k][2] * r[k][2] > r[k][1] * r[k][1]})
    IN  good >= 1 /\ good >= Len(r) \div 2

Transposed(r) == [k \in DOMAIN r |-> <<r[k][2], r[k][1]>>]

\* C2 as claimed: normalize_coords applied to its own output R succeeds and
\* returns exactly R.
C2_Idempotent ==
    pc = "renormed" => (again.err = "none" /\ again.ring = pts.ring)

\* C2 as amended: normalize_coords applied to its own output R succeeds; it
\* returns exactly R, without an axis swap, when R has at least
\* max(1, len(R) // 2) points with |y| > |x|, and R with x and y exchanged
\* otherwise.
C2_IdempotentIfAxisCorrect ==
    pc = "renormed" =>
        /\ again.err = "none"
        /\ AxisCorrect(pts.ring) => (again.ring = pts.ring /\ ~again.swapped)
        /\ ~AxisCorrect(pts.ring) =>
               (again.ring = Transposed(pts.ring) /\ again.swapped)

\* C2, its case: a ring produced with an axis swap that passes the majority
\* test is returned unchanged by the second call.
C2_Witness ==
    /\ pc = "renormed"
    /\ pts.swapped
    /\ AxisCorrect(pts.ring)
    /\ Transposed(pts.ring) /= pts.ring
    /\ again.ring = pts.ring

\* C3 as claimed: for [[10,5],[10,-5],[-10,-5],[-10,5]] there is no axis swap
\* and the call returns a closed ring of the points (-abs(x), -abs(y)).
C3_NoSwapClosedRing ==
    (pc = "normed" /\ req.coords = C3Input) =>
        /\ ~pts.swapped
        /\ pts.err = "none"
        /\ pts.ring[1] = pts.ring[Len(pts.ring)]
        /\ \A k \in DOMAIN pts.ring : pts.ring[k] = <<-10, -5>>

\* C3 as amended: for [[10,5],[10,-5],[-10,-5],[-10,5]] no point has
\* |y| > |x|, so the axis swap is triggered; all four points become (-5,-10),
\* collapse to one point, and the call raises ValueError (too few points).
C3_SwapsAndRaises ==
    (pc = "normed" /\ req.coords = C3Input) =>
        /\ pts.swapped
        /\ pts.cleaned = << <<-5, -10>> >>
        /\ pts.err = "ValueError"

\* C3, its case: the call on the example input has ended.
C3_Witness ==
    /\ pc = "normed"
    /\ req.coords = C3Input
    /\ pts.err /= "pending"

\* C4: a parcel with a non-empty geometry is in the result list (once) if
\* and only if its intersection area is > 0, or include_touches is set and
\* the geometries intersect; a parcel touching only on the boundary is
\* absent without include_touches and present with overlap 0.0 with it.
C4_InclusionRule ==
    Answered =>
        \A k \in DOMAIN parcels :
            LET g == parcels[k].geometry
                n == Entries(response.parcels, parcels[k].ncr)
            IN  ~g.empty =>
                  /\ n <= 1
                  /\ (n = 1) <=> (g.inter > 0 \/ (req.include_touches /\ g.meets))
                  /\ (g.inter = 0 /\ g.meets /\ req.include_touches) =>
                        \A j \in DOMAIN response.parcels :
                            response.parcels[j].ncr = parcels[k].ncr =>
                                response.parcels[j].overlap = 0

\* C4, its case: with include_touches a parcel touching only on the boundary
\* is reported with overlap 0.0 while a parcel apart from the polygon is not.
C4_Witness ==
    /\ Answered
    /\ req.include_touches
    /\ Len(parcels) = 2
    /\ \E k \in DOMAIN parcels :
         /\ parcels[k].geometry.inter = 0
         /\ parcels[k].geometry.meets
         /\ \E j \in DOMAIN response.parcels :
              /\ response.parcels[j].ncr = parcels[k].ncr
              /\ response.parcels[j].overlap = 0
    /\ \E k \in DOMAIN parcels :
         /\ ~parcels[k].geometry.empty
         /\ ~parcels[k].geometry.meets
         /\ Entries(response.parcels, parcels[k].ncr) = 0

\* C5: every reported percentage is null or within [0, 100]; it is null
\* exactly when the parcel area used (declared area if present, else the
\* geometry's area) is <= 0, and otherwise is intersection area / parcel
\* area * 100 (to two decimals; percentages count in hundredths here).
C5_PctWithinRange ==
    Answered =>
        \A j \in DOMAIN response.parcels :
            LET r == response.parcels[j]
                p == ParcelOf(r.ncr)
                area == IF p.areaValue /= None THEN p.areaValue[1]
                        ELSE p.geometry.area
            IN  /\ (r.pct = None) <=> (area <= 0)
                /\ r.pct /= None =>
                     /\ 0 <= r.pct[1] /\ r.pct[1] <= 10000
                     /\ r.pct[1] = RoundDiv(p.geometry.inter * 10000, area)

\* a name or href counts: when it is not None, or (strict) when it is
\* neither None nor the empty string
Counts(s, strict) == s /= None /\ (strict => s /= <<"">>)

\* the included parcels, in the order of the payload
IncludedInOrder ==
    SelectSeq(parcels, LAMBDA p : Entries(response.parcels, p.ncr) > 0)

RECURSIVE FirstSeenFrom(_, _, _)
\* the units of the parcels ps whose name and href both count, each once, in
\* the order of first occurrence
FirstSeenFrom(seen, ps, strict) ==
    IF ps = <<>> THEN seen
    ELSE LET p == Head(ps)
             u == [name |-> p.ku.name[1], href |-> p.ku.href[1]]
         IN  IF Counts(p.ku.name, strict) /\ Counts(p.ku.href, strict)
                  /\ ~\E k \in DOMAIN seen : seen[k] = u
             THEN FirstSeenFrom(Append(seen, u), Tail(ps), strict)
             ELSE FirstSeenFrom(seen, Tail(ps), strict)

NoDuplicates(s) == \A i \in DOMAIN s : \A j \in DOMAIN s : i /= j => s[i] /= s[j]

\* C6 as claimed: the unit list holds no pair twice and is exactly the
\* (name, href) pairs of the included parcels whose name and href are both
\* present, in the order of first occurrence in the payload.
C6_UnitsOfPresentPairs ==
    Answered =>
        /\ NoDuplicates(response.ku)
        /\ response.ku = FirstSeenFrom(<<>>, IncludedInOrder, FALSE)

\* C6 as amended: the unit list holds no pair twice and is exactly the
\* (name, href) pairs of the included parcels whose name and href are both
\* present and not the empty string, in the order of first occurrence in the
\* payload, whatever the final sort does to the parcel list.
C6_UnitsOfNonEmptyPairs ==
    Answered =>
        /\ NoDuplicates(response.ku)
        /\ response.ku = FirstSeenFrom(<<>>, IncludedInOrder, TRUE)

\* C6, its case: two included parcels of one unit, the second of which the
\* sort has moved in front of the first; the unit is listed once.
C6_Witness ==
    /\ Answered
    /\ Len(response.parcels) = 2
    /\ response.parcels[1].ncr = 2
    /\ response.parcels[1].kuName = <<"A">>
    /\ response.parcels[1].kuHref = <<"h1">>
    /\ response.parcels[2].kuName = <<"A">>
    /\ response.parcels[2].kuHref = <<"h1">>
    /\ response.ku = <<[name |-> "A", href |-> "h1"]>>

\* C7: the parcel list of the response is sorted by reported overlap area,
\* non-increasing, and entries of equal reported overlap keep the order of
\* the payload; the sort neither drops nor adds an entry.
C7_SortedStable ==
    Answered =>
        LET rs == response.parcels
        IN  /\ \A i \in DOMAIN rs : \A j \in DOMAIN rs :
                  i < j =>
                     /\ rs[i].overlap >= rs[j].overlap
                     /\ rs[i].overlap = rs[j].overlap => rs[i].ncr < rs[j].ncr
            /\ Len(rs) = Len(IncludedInOrder)

\* C7, its case: two parcels of different intersection area whose reported
\* overlap is the same, behind no other entry.
C7_Witness ==
    /\ Answered
    /\ Len(response.parcels) = 2
    /\ response.parcels[1].overlap = response.parcels[2].overlap
    /\ ParcelOf(1).geometry.inter /= ParcelOf(2).geometry.inter

\* what C8 calls a feature that is not skipped: a cadastral parcel with a
\* polygon element whose coordinates parse and which shapely accepts
Readable(m) ==
    /\ m.parcel
    /\ m.geom /= None
    /\ m.geom[1].ext = "ok"
    /\ \A k \in DOMAIN m.geom[1].ints : m.geom[1].ints[k] /= "badfloat"
    /\ m.geom[1].geos = "ok"

\* C8: read_wfs_members never aborts on a feature; a feature without a
\* polygon element or whose geometry fails to parse or repair is skipped,
\* every other feature yields exactly one record, and the records stand in
\* the order of their features.
C8_ReadsEveryGoodFeature ==
    /\ pc \in {"read", "read_done"}
    /\ pc = "read_done" =>
         [k \in DOMAIN parcels |-> parcels[k].ncr]
           = SelectSeq([k \in DOMAIN xml |-> k], LAMBDA k : Readable(xml[k]))

\* C8, its case: a payload whose second feature fails to parse, read to the
\* end with the records of the first and the third.
C8_Witness ==
    /\ pc = "read_done"
    /\ Len(xml) = 3
    /\ xml[2].geom /= None
    /\ xml[2].geom[1].ext = "badfloat"
    /\ xml[1].areaTxt.kind = "bad"
    /\ [k \in DOMAIN parcels |-> parcels[k].ncr] = <<1, 3>>

\* C9: whenever the ring passes normalization and the repaired polygon is
\* not empty, the request reaches the bounding box and is answered,
\* whatever class of geometry the repair returned.
C9_AnyRepairedClassAnswered ==
    (pc = "done" /\ user_poly.cls /= "pending" /\ ~user_poly.is_empty) =>
        /\ bbox /= <<>>
        /\ response.error /= "AttributeError"

\* C10: when normalization yields fewer than 4 points (an empty list
\* included) or the repaired polygon is empty, the request ends rejected
\* (HTTP 400) with no fetch issued and no partial result; a fetch is issued
\* only after validation has succeeded.
C10_FailFast ==
    /\ (pc = "done" /\ (pts.err \in {"IndexError", "ValueError"} \/ user_poly.is_empty)) =>
          /\ response.status = 400
          /\ fetches = 0
          /\ response.parcels = <<>>
          /\ response.ku = <<>>
    /\ (pc = "done" /\ req.coords = <<>>) => response.status = 400
    /\ fetches > 0 =>
          /\ pts.err = "none"
          /\ Len(pts.ring) >= 4
          /\ user_poly.cls /= "pending"
          /\ ~user_poly.is_empty

\* C10, its case: a request with an empty coordinate list has been rejected.
C10_Witness ==
    /\ pc = "done"
    /\ req.coords = <<>>
    /\ response.status = 400
    /\ fetches = 0

====
